---- MODULE Spec2Model ----
(***************************************************************************)
(* Monolithos installer: license verification, the install sequence       *)
(* (download, decode, file placement, appearance edit, settings save) and  *)
(* the installer modal that drives them.                                   *)
(*                                                                         *)
(* JavaScript strings that the code searches, cuts or trims (archive       *)
(* paths, target paths, snippet names, license keys) are sequences of      *)
(* one-character strings, with the String methods written out below.       *)
(* Texts that are only stored and shown are TLA+ strings.                  *)
(***************************************************************************)
EXTENDS Integers, Sequences, FiniteSets, TLC

VARIABLES
    settings,        \* plugin.settings, the in-memory settings record
    persisted,       \* the record held by the host's saveData/loadData store
    files,           \* vault files written through adapter.writeBinary: path -> content
    dirs,            \* directories that exist in the vault
    appearanceFile,  \* text of <configDir>/appearance.json, or Absent
    package,         \* the archive served at PLUGIN_DOWNLOAD_URL
    modal,           \* the InstallModal instances and their handleInstall flows
    run,             \* the installMonolithos invocation of each modal's flow
    lastOk,          \* vault contents left by the last run, when it returned true
    tab              \* the Clear handler of the settings tab

vars == <<settings, persisted, files, dirs, appearanceFile, package, modal, run, lastOk, tab>>

----------------------------------------------------------------------------
(* JavaScript String methods, on sequences of characters (indexes 0-based). *)

SetMin(S) == CHOOSE x \in S : \A y \in S : x <= y

SetMax(S) == CHOOSE x \in S : \A y \in S : x >= y

Occurrences(s, t) == {i \in 0..(Len(s) - Len(t)) : SubSeq(s, i + 1, i + Len(t)) = t}

IndexOf(s, t) == IF Occurrences(s, t) = {} THEN -1 ELSE SetMin(Occurrences(s, t))

LastIndexOf(s, t) == IF Occurrences(s, t) = {} THEN -1 ELSE SetMax(Occurrences(s, t))

Includes(s, t) == IndexOf(s, t) # -1

StartsWith(s, t) == Len(t) <= Len(s) /\ SubSeq(s, 1, Len(t)) = t

EndsWith(s, t) == Len(t) <= Len(s) /\ SubSeq(s, Len(s) - Len(t) + 1, Len(s)) = t

Clamp(s, i) == IF i < 0 THEN 0 ELSE IF i > Len(s) THEN Len(s) ELSE i

\* s.substring(a, b): arguments clamped to 0..length and swapped when a > b
Substring(s, a, b) ==
    LET lo == IF Clamp(s, a) <= Clamp(s, b) THEN Clamp(s, a) ELSE Clamp(s, b)
        hi == IF Clamp(s, a) <= Clamp(s, b) THEN Clamp(s, b) ELSE Clamp(s, a)
    IN  SubSeq(s, lo + 1, hi)

\* s.substring(a)
SubstringFrom(s, a) == Substring(s, a, Len(s))

\* s.replace(t, r) with a string pattern: the first occurrence only
Replace(s, t, r) ==
    IF IndexOf(s, t) = -1 THEN s
    ELSE Substring(s, 0, IndexOf(s, t)) \o r \o SubstringFrom(s, IndexOf(s, t) + Len(t))

\* parts = s.split('/'); parts[parts.length - 1]
SplitLast(s) == SubstringFrom(s, LastIndexOf(s, <<"/">>) + 1)

\* the white space and line terminators of ECMAScript, which trim() strips:
\* space, tab, line feed, carriage return, form feed, vertical tab, no-break
\* space, and, written by code point, those outside Latin-1
WhiteSpace ==
    {" ", "\t", "\n", "\r", "\f", "", " ",
     "U+1680", "U+2000", "U+2001", "U+2002", "U+2003", "U+2004", "U+2005", "U+2006",
     "U+2007", "U+2008", "U+2009", "U+200A", "U+2028", "U+2029", "U+202F", "U+205F",
     "U+3000", "U+FEFF"}

RECURSIVE TrimStart(_)
TrimStart(s) == IF s # <<>> /\ Head(s) \in WhiteSpace THEN TrimStart(Tail(s)) ELSE s

RECURSIVE TrimEnd(_)
TrimEnd(s) ==
    IF s # <<>> /\ s[Len(s)] \in WhiteSpace THEN TrimEnd(SubSeq(s, 1, Len(s) - 1)) ELSE s

\* s.trim()
Trim(s) == TrimEnd(TrimStart(s))

----------------------------------------------------------------------------
(* JSON values as the code sees them: a tag t and a value v; objects carry *)
(* their fields instead of v.                                              *)

JUndef == [t |-> "undefined", v |-> 0]

JNull == [t |-> "null", v |-> 0]

JBool(b) == [t |-> "bool", v |-> b]

JNum(n) == [t |-> "num", v |-> n]

JStr(s) == [t |-> "str", v |-> s]

JArr(xs) == [t |-> "arr", v |-> xs]

\* JavaScript truthiness
Truthy(j) ==
    CASE j.t = "undefined" -> FALSE
      [] j.t = "null" -> FALSE
      [] j.t = "bool" -> j.v
      [] j.t = "num" -> j.v # 0
      [] j.t = "str" -> j.v # ""
      [] OTHER -> TRUE

\* reading a property of null or undefined throws a TypeError
PropertyThrows(j) == j.t \in {"null", "undefined"}

----------------------------------------------------------------------------
(* License verification                                                    *)

K1 == <<"k", "1">>

K2 == <<"k", "2">>

DEFAULT_SETTINGS == [licenseKey |-> <<>>, installed |-> FALSE, installedVersion |-> ""]

\* bodies the verification endpoint may answer with
JObj(valid, tier, message) == [t |-> "obj", valid |-> valid, tier |-> tier, message |-> message]

ValidValues == {JUndef, JBool(TRUE), JBool(FALSE), JNum(1), JStr("")}

TierValues == {JUndef, JStr("pro")}

MessageValues == {JUndef, JStr("expired"), JStr("")}

Bodies ==
    {JNull, JNum(5)} \cup
    {JObj(v, ti, msg) : v \in ValidValues, ti \in TierValues, msg \in MessageValues}

\* what the awaited requestUrl and the read of response.json can come to
Outcomes ==
    {[kind |-> "transport", body |-> JUndef], [kind |-> "unparsable", body |-> JUndef]} \cup
    {[kind |-> "json", body |-> b] : b \in Bodies}

\* data.<field>: undefined on a primitive, the field on an object
Get(data, field) == IF data.t = "obj" THEN data[field] ELSE JUndef

Result(valid, tier, error) == [valid |-> valid, tier |-> tier, error |-> error]

Returned(value) == [threw |-> FALSE, value |-> value]

Thrown == [threw |-> TRUE, value |-> Result(FALSE, JUndef, JUndef)]

\* a try block that passes on any message the body defines
VerifyTryAnyMessage(outcome) ==
    IF outcome.kind # "json" THEN Thrown
    ELSE IF PropertyThrows(outcome.body) THEN Thrown
    ELSE IF Truthy(Get(outcome.body, "valid"))
         THEN Returned(Result(TRUE, Get(outcome.body, "tier"), JUndef))
         ELSE Returned(Result(FALSE, JUndef,
                  IF Get(outcome.body, "message") # JUndef
                  THEN Get(outcome.body, "message")
                  ELSE JStr("Invalid license key")))

\* the try block of verifyLicense
VerifyTry(outcome) ==
    IF outcome.kind # "json" THEN Thrown
    ELSE IF PropertyThrows(outcome.body) THEN Thrown
    ELSE IF Truthy(Get(outcome.body, "valid"))
         THEN Returned(Result(TRUE, Get(outcome.body, "tier"), JUndef))
         ELSE Returned(Result(FALSE, JUndef,
                  IF Truthy(Get(outcome.body, "message"))
                  THEN Get(outcome.body, "message")
                  ELSE JStr("Invalid license key")))

\* a catch block that lets the error through
VerifyCatchRethrows(outcome) == Thrown

\* the catch block of verifyLicense
VerifyCatch(outcome) == Returned(Result(FALSE, JUndef, JStr("Could not connect to server")))

verifyLicense(outcome) ==
    IF VerifyTry(outcome).threw THEN VerifyCatch(outcome) ELSE VerifyTry(outcome)

----------------------------------------------------------------------------
(* Paths                                                                   *)

ConfigDir == <<".", "o", "b", "s", "i", "d", "i", "a", "n">>

Slash == <<"/">>

PluginMarker == <<"p", "l", "u", "g", "i", "n", "s", "/", "m", "o", "n", "o", "l", "i", "t", "h", "o", "s", "/">>

SnippetMarker == <<"s", "n", "i", "p", "p", "e", "t", "s", "/">>

CssSuffix == <<".", "c", "s", "s">>

Keywords == {<<"m", "o", "n", "o", "l", "i", "t", "h", "o", "s">>,
             <<"s", "o", "v", "e", "r", "e", "i", "g", "n">>,
             <<"a", "r", "c", "h", "i", "v", "e">>,
             <<"c", "h", "a", "m", "b", "e", "r">>,
             <<"o", "r", "a", "c", "l", "e">>,
             <<"c", "a", "n", "v", "a", "s">>}

\* a classification that looks for 'snippets/' first
TargetPathSnippetsFirst(path) ==
    IF Includes(path, SnippetMarker)
    THEN ConfigDir \o Slash \o SubstringFrom(path, IndexOf(path, SnippetMarker))
    ELSE IF Includes(path, PluginMarker)
    THEN ConfigDir \o Slash \o SubstringFrom(path, IndexOf(path, PluginMarker))
    ELSE <<>>

\* a classification by prefix instead of by substring
TargetPathByPrefix(path) ==
    IF IndexOf(path, PluginMarker) = 0 \/ IndexOf(path, SnippetMarker) = 0
    THEN ConfigDir \o Slash \o path
    ELSE <<>>

\* target path of an archive entry, or the empty string (entry skipped)
TargetPath(path) ==
    IF Includes(path, PluginMarker)
    THEN ConfigDir \o Slash \o SubstringFrom(path, IndexOf(path, PluginMarker))
    ELSE IF Includes(path, SnippetMarker)
    THEN ConfigDir \o Slash \o SubstringFrom(path, IndexOf(path, SnippetMarker))
    ELSE <<>>

\* targetPath.substring(0, targetPath.lastIndexOf('/'))
DirOf(targetPath) == Substring(targetPath, 0, LastIndexOf(targetPath, Slash))

AppearancePath == ConfigDir \o <<"/", "a", "p", "p", "e", "a", "r", "a", "n", "c", "e", ".", "j", "s", "o", "n">>

SnippetsPath == ConfigDir \o <<"/", "s", "n", "i", "p", "p", "e", "t", "s">>

----------------------------------------------------------------------------
(* The archive and the vault                                               *)

MaxEntries == 2

\* entries an archive may hold, in the order zip.files would list them
Pool == <<
    [path |-> <<"p", "l", "u", "g", "i", "n", "s", "/", "m", "o", "n", "o", "l", "i", "t", "h", "o", "s", "/", "m", "a", "i", "n", ".", "j", "s">>,
     dir |-> FALSE, content |-> 1],
    [path |-> <<"s", "n", "i", "p", "p", "e", "t", "s", "/", "t", "h", "e", "m", "e", ".", "c", "s", "s">>,
     dir |-> FALSE, content |-> 2],
    [path |-> <<"r", "e", "a", "d", "m", "e", ".", "t", "x", "t">>,
     dir |-> FALSE, content |-> 3],
    [path |-> <<"p", "l", "u", "g", "i", "n", "s", "/", "m", "o", "n", "o", "l", "i", "t", "h", "o", "s", "/">>,
     dir |-> TRUE, content |-> 0],
    [path |-> <<"s", "n", "i", "p", "p", "e", "t", "s", "/", "o", "r", "a", "c", "l", "e", ".", "c", "s", "s">>,
     dir |-> FALSE, content |-> 4],
    [path |-> <<"d", "o", "c", "s", "/", "m", "y", "s", "n", "i", "p", "p", "e", "t", "s", "/", "c", "a", "n", "v", "a", "s", ".", "c", "s", "s">>,
     dir |-> FALSE, content |-> 5],
    [path |-> <<"v", "1", "/", "s", "n", "i", "p", "p", "e", "t", "s", "/", "o", "r", "a", "c", "l", "e", ".", "c", "s", "s">>,
     dir |-> FALSE, content |-> 6] >>

RECURSIVE SubSeqs(_, _)
\* the sub-sequences of s of at most n elements
SubSeqs(s, n) ==
    IF s = <<>> \/ n = 0 THEN {<<>>}
    ELSE SubSeqs(Tail(s), n) \cup {<<Head(s)>> \o r : r \in SubSeqs(Tail(s), n - 1)}

Packages == SubSeqs(Pool, MaxEntries)

\* the archive of the README: a plugin file, a snippet and a stray file
ExamplePackage == <<Pool[1], Pool[2], Pool[3]>>

SovereignCss == SnippetsPath \o <<"/", "s", "o", "v", "e", "r", "e", "i", "g", "n", ".", "c", "s", "s">>

NoFiles == [f \in {} |-> 0]

\* adapter.writeBinary(path, content): creates or overwrites
WriteFile(fs, path, content) ==
    [f \in DOMAIN fs \cup {path} |-> IF f = path THEN content ELSE fs[f]]

Absent == [fmt |-> "absent", value |-> JUndef]

Malformed == [fmt |-> "malformed", value |-> JUndef]

\* a text that parses as JSON to value, as some editor left it
HostText(value) == [fmt |-> "host", value |-> value]

Appearance(list, theme) == [t |-> "obj", enabledCssSnippets |-> list, theme |-> theme]

Oracle == <<"o", "r", "a", "c", "l", "e">>

Mine == <<"m", "i", "n", "e">>

InitialAppearance ==
    {Absent, Malformed, HostText(JNull),
     HostText(Appearance(JUndef, JStr("dark"))),
     HostText(Appearance(JArr(<<Oracle, Mine>>), JStr("dark")))}

\* vaults the installer may find: a new one with nothing stored, and one with a
\* snippet and the record of an earlier install
NewVault == [files |-> NoFiles, dirs |-> {ConfigDir}, stored |-> DEFAULT_SETTINGS]

UsedVault ==
    [files |-> WriteFile(NoFiles, SovereignCss, 9), dirs |-> {ConfigDir, SnippetsPath},
     stored |-> [licenseKey |-> K2, installed |-> TRUE, installedVersion |-> "1.0.0"]]

InitialVaults == {NewVault, UsedVault}

\* JSON.parse(content)
ParseThrows(text) == text.fmt = "malformed"

Parse(text) == text.value

\* JSON.stringify(value, null, 2)
Stringify(value) == [fmt |-> "pretty2", value |-> value]

\* adapter.exists on a directory
DirExists(dir) == dir \in dirs

\* adapter.mkdir creates the directory with its missing parents
Ancestors(dir) == {Substring(dir, 0, i) : i \in Occurrences(dir, Slash) \cup {Len(dir)}} \ {<<>>}

\* the sequences that hold each element of S once
Orderings(S) ==
    {s \in [1..Cardinality(S) -> S] : \A j, k \in 1..Cardinality(S) : s[j] = s[k] => j = k}

\* adapter.list(dir).files: the files of the directory, in an order that is
\* the host's
ListFiles(dir) == Orderings({f \in DOMAIN files : DirOf(f) = dir})

----------------------------------------------------------------------------
(* enableSnippets: the edit of the appearance document                     *)

RECURSIVE MapNames(_)
\* .map(f => last part of f.split('/'), with '.css' replaced by '')
MapNames(fs) ==
    IF fs = <<>> THEN <<>>
    ELSE <<Replace(SplitLast(Head(fs)), CssSuffix, <<>>)>> \o MapNames(Tail(fs))

SnippetNames(listing) == MapNames(SelectSeq(listing, LAMBDA f : EndsWith(f, CssSuffix)))

HasKeyword(name) == \E k \in Keywords : Includes(name, k)

\* a membership test that never finds the name
InListNever(list, name) == FALSE

\* appearance.enabledCssSnippets.includes(name)
InList(list, name) == \E j \in 1..Len(list) : list[j] = name

RECURSIVE EnableNamesAgain(_, _)
\* a loop that pushes every keyword name, listed or not
EnableNamesAgain(list, names) ==
    IF names = <<>> THEN list
    ELSE IF HasKeyword(Head(names))
         THEN EnableNamesAgain(Append(list, Head(names)), Tail(names))
         ELSE EnableNamesAgain(list, Tail(names))

RECURSIVE EnableNames(_, _)
\* the loop over snippetNames: push each keyword name not yet in the list
EnableNames(list, names) ==
    IF names = <<>> THEN list
    ELSE IF HasKeyword(Head(names)) /\ ~InList(list, Head(names))
         THEN EnableNames(Append(list, Head(names)), Tail(names))
         ELSE EnableNames(list, Tail(names))

\* reading appearance.enabledCssSnippets throws when the document parsed to null
EditThrows(appearance) == PropertyThrows(appearance)

\* the document after the loop
EditDocument(appearance, names) ==
    [appearance EXCEPT !.enabledCssSnippets =
        JArr(EnableNames(IF Truthy(appearance.enabledCssSnippets)
                         THEN appearance.enabledCssSnippets.v ELSE <<>>, names))]

----------------------------------------------------------------------------
(* The installer modal and the install run                                 *)

Modals == {"m1", "m2"}

FirstModal == "m1"

\* what the license key input may hold when the button is clicked
Inputs ==
    {<<>>, <<" ">>, <<"\t">>, <<"\n", "U+3000">>, K1, <<" ">> \o K1 \o <<" ">>,
     K1 \o <<"\t">>, <<"\r", " ">> \o K2 \o <<"\n">>, K2}

\* one key; an error, an acceptance and a refusal
FewInputs == {K1}

FewOutcomes ==
    {[kind |-> "transport", body |-> JUndef],
     [kind |-> "json", body |-> JObj(JBool(TRUE), JStr("pro"), JUndef)],
     [kind |-> "json", body |-> JObj(JBool(FALSE), JUndef, JStr("expired"))]}

API_BASE == "https://api.monolithos.ai"

VERIFY_URL == API_BASE \o "/verify"

PLUGIN_DOWNLOAD_URL == API_BASE \o "/download/MONOLITHOS_PLUGIN_v1.0.zip"

\* what is handed to requestUrl: the url, the method, the Content-Type header
\* and the body
Request(url, method, contentType, body) ==
    [url |-> url, method |-> method, contentType |-> contentType, body |-> body]

NoRequest == Request("", "", "", JUndef)

\* JSON.stringify(value), without indentation
StringifyCompact(value) == [fmt |-> "compact", value |-> value]

\* a request that also reports whether the package is installed
VerifyRequestWithStatus(licenseKey) ==
    Request(VERIFY_URL, "POST", "application/json",
            StringifyCompact([t |-> "obj", license_key |-> licenseKey,
                              installed |-> settings.installed]))

\* the request of verifyLicense
VerifyRequest(licenseKey) ==
    Request(VERIFY_URL, "POST", "application/json",
            StringifyCompact([t |-> "obj", license_key |-> licenseKey]))

\* the request of installMonolithos
DownloadRequest == Request(PLUGIN_DOWNLOAD_URL, "GET", "", JUndef)

Status(text, arg) == [text |-> text, arg |-> arg]

NoOutcome == [kind |-> "none", body |-> JUndef]

\* new InstallModal(app, plugin), opened
NewModal ==
    [open |-> TRUE, isInstalling |-> FALSE, disabled |-> FALSE,
     label |-> "Verify & install", status |-> Status("", JUndef),
     cls |-> "installer-status", pc |-> "idle", key |-> <<>>,
     outcome |-> NoOutcome, completion |-> Returned(Result(FALSE, JUndef, JUndef)),
     saving |-> DEFAULT_SETTINGS, stored |-> DEFAULT_SETTINGS, request |-> NoRequest]

\* Clear handlers that may await their saveSettings at one time
MaxPending == 2

\* the settings tab: no Clear button on screen, no Clear handler running
NoTab == [shown |-> FALSE, pending |-> <<>>]

\* sequence s without its j-th element
Without(s, j) == SubSeq(s, 1, j - 1) \o SubSeq(s, j + 1, Len(s))

NoSnapshot ==
    [set |-> FALSE, files |-> NoFiles, dirs |-> {}, appearance |-> Absent, editFailed |-> FALSE]

\* the vault as a run that returned true leaves it, and whether its
\* appearance edit caught an error
VaultSnapshot(r) ==
    [set |-> TRUE, files |-> files, dirs |-> dirs, appearance |-> appearanceFile,
     editFailed |-> r.editError # ""]

\* what an awaited call rejected with: the call, whether the value is an
\* Error, and its message (an Error carries the name of the call as message;
\* a string, an object or undefined thrown instead carries none)
Rejection(call, isError) ==
    [call |-> call, isError |-> isError, message |-> IF isError THEN call ELSE ""]

NoRejection == Rejection("", FALSE)

NoRun ==
    [pc |-> "idle", files |-> <<>>, entry |-> 0, i |-> 0, targetPath |-> <<>>, written |-> <<>>,
     appearance |-> JUndef, editReturned |-> FALSE, editError |-> "", marked |-> FALSE,
     progress |-> <<>>, err |-> NoRejection, saving |-> DEFAULT_SETTINGS,
     before |-> [settings |-> DEFAULT_SETTINGS, persisted |-> DEFAULT_SETTINGS],
     prev |-> NoSnapshot, request |-> NoRequest, listing |-> <<>>]

\* onProgress(status)
Progress(r, phase) == [r EXCEPT !.progress = Append(@, phase)]

\* installMonolithos up to the awaited download request; before and prev
\* record the settings and the vault the run started from
BeginRun(st, ps, prev) ==
    [Progress(NoRun, "Downloading Monolithos...") EXCEPT
        !.pc = "download", !.before = [settings |-> st, persisted |-> ps], !.prev = prev,
        !.request = DownloadRequest]

\* the download returned and the decode starts before its phase is reported
AfterDownloadUnreported(r) == [r EXCEPT !.pc = "decode"]

\* the download returned: phase 2 up to the awaited JSZip.loadAsync
AfterDownload(r) == [Progress(r, "Extracting files...") EXCEPT !.pc = "decode"]

\* step 5 up to the first await of enableSnippets: let appearance = {}
BeginEdit(r) ==
    [Progress(r, "Configuring appearance...") EXCEPT
        !.pc = "editExists", !.appearance = Appearance(JUndef, JUndef)]

RECURSIVE WriteLoop(_, _)
\* the loop over files from index i up to its next await
WriteLoop(r, i) ==
    IF i > Len(r.files) THEN BeginEdit([r EXCEPT !.i = i])
    ELSE IF TargetPath(r.files[i].path) = <<>> THEN WriteLoop(r, i + 1)
    ELSE [r EXCEPT !.i = i, !.targetPath = TargetPath(r.files[i].path),
                   !.pc = IF DirOf(TargetPath(r.files[i].path)) # <<>>
                          THEN "exists" ELSE "writeBinary"]

\* every entry is read: phases 3 and 4 up to the next await
AfterDecode(r) == WriteLoop([Progress(r, "Installing files...") EXCEPT !.entry = 0], 1)

RECURSIVE ReadLoop(_, _, _)
\* the loop over zip.files from entry j up to its next await: directories are
\* passed over, the content of a file entry is awaited
ReadLoop(r, zip, j) ==
    IF j > Len(zip) THEN AfterDecode(r)
    ELSE IF zip[j].dir THEN ReadLoop(r, zip, j + 1)
    ELSE [r EXCEPT !.entry = j, !.pc = "entryAsync"]

\* JSZip.loadAsync returned: the loop over the entries starts
AfterLoad(r, zip) == ReadLoop([r EXCEPT !.files = <<>>], zip, 1)

\* entry.async('arraybuffer') returned: the file is pushed, on to the next entry
AfterAsync(r, zip) == ReadLoop([r EXCEPT !.files = Append(@, zip[r.entry])], zip, r.entry + 1)

\* a write that follows the exists check without the mkdir
AfterExistsWritesAtOnce(r, exists) == [r EXCEPT !.pc = "writeBinary"]

\* adapter.exists(dir) answered
AfterExists(r, exists) == [r EXCEPT !.pc = IF exists THEN "writeBinary" ELSE "mkdir"]

\* adapter.mkdir(dir) returned
AfterMkdir(r) == [r EXCEPT !.pc = "writeBinary"]

\* adapter.writeBinary returned: on to the next file
AfterWrite(r) ==
    WriteLoop([r EXCEPT !.written =
                   Append(@, [path |-> r.targetPath, content |-> r.files[r.i].content])],
              r.i + 1)

\* this.settings.installed = true; this.settings.installedVersion = '1.0.0'
MarkInstalled(st) == [st EXCEPT !.installed = TRUE, !.installedVersion = "1.0.0"]

\* enableSnippets returned: 'Installation complete!', then the settings are
\* marked and saveSettings awaited
AfterEdit(r) ==
    [Progress(r, "Installation complete!") EXCEPT
        !.pc = "save", !.editReturned = TRUE, !.listing = <<>>]

\* a catch block of enableSnippets that passes the error on to installMonolithos
EditCatchRethrows(r, error) ==
    [r EXCEPT !.editError = error, !.pc = "thrown", !.err = Rejection(error, TRUE)]

\* the catch block of enableSnippets: log the error, return normally
EditCatch(r, error) == AfterEdit([r EXCEPT !.editError = error])

\* the settings marked as soon as the files are written, before the edit
SettingsAfterWrites(r, st) == IF r.pc \in {"save", "editExists"} THEN MarkInstalled(st) ELSE st

\* the settings marked as soon as the download returned
SettingsAfterDownload(r, st) == IF r.pc \in {"save", "decode"} THEN MarkInstalled(st) ELSE st

\* the settings record once the run stands at r: marked when the save is awaited
SettingsAfter(r, st) == IF r.pc = "save" THEN MarkInstalled(st) ELSE st

\* a catch block that logs the error and returns
InstallCatchSwallows(r, error) == [r EXCEPT !.pc = "returned", !.err = error]

\* the catch block of installMonolithos: log and rethrow
InstallCatch(r, error) == [r EXCEPT !.pc = "thrown", !.err = error]

\* installMonolithos returned true
InstallReturn(r) == [r EXCEPT !.pc = "returned"]

\* the status element shows the phase last reported
ShowProgress(md, r) == [md EXCEPT !.status = Status(r.progress[Len(r.progress)], JUndef)]

\* handleInstall, first lines: the guard, the blank check, the verifying
\* state, and verifyLicense up to its awaited request
HandleClick(md, value) ==
    IF md.isInstalling THEN md
    ELSE IF Trim(value) = <<>>
    THEN [md EXCEPT !.status = Status("Please enter a license key", JUndef),
                    !.cls = "installer-status error"]
    ELSE [md EXCEPT !.isInstalling = TRUE, !.disabled = TRUE, !.label = "Verifying...",
                    !.status = Status("Verifying license...", JUndef),
                    !.cls = "installer-status", !.pc = "verify", !.key = Trim(value),
                    !.outcome = NoOutcome, !.completion = NewModal.completion,
                    !.request = VerifyRequest(Trim(value))]

\* a refusal that offers 'Retry' as the install failure does
VerifyFailedOffersRetry(md, result) ==
    [md EXCEPT !.status = IF result.error.t \in {"undefined", "null"}
                          THEN Status("Verification failed", JUndef)
                          ELSE Status("", result.error),
               !.cls = "installer-status error", !.disabled = FALSE,
               !.label = "Retry", !.isInstalling = FALSE, !.pc = "idle"]

\* handleInstall after verifyLicense returned a result that is not valid
VerifyFailed(md, result) ==
    [md EXCEPT !.status = IF result.error.t \in {"undefined", "null"}
                          THEN Status("Verification failed", JUndef)
                          ELSE Status("", result.error),
               !.cls = "installer-status error", !.disabled = FALSE,
               !.label = "Verify & install", !.isInstalling = FALSE, !.pc = "idle"]

\* handleInstall after a valid result: the key is set and saveSettings awaited
VerifyPassed(md, st) == [md EXCEPT !.pc = "saveKey", !.saving = st]

\* the awaited promise rejected outside any try: handleInstall ends there
Rejected(md) == [md EXCEPT !.pc = "rejected"]

\* handleInstall after the key is saved, up to the call of installMonolithos
StartInstall(md, result) ==
    [md EXCEPT !.status = Status("License valid! Tier: ", result.tier),
               !.label = "Installing...", !.pc = "install"]

\* handleInstall after installMonolithos returned
InstallSucceeded(md) ==
    [md EXCEPT !.status = Status("Installation complete!", JUndef),
               !.cls = "installer-status success", !.label = "Done!", !.pc = "done"]

\* error instanceof Error ? error.message : 'Unknown error'
ErrorMessage(error) == IF error.isError THEN error.message ELSE "Unknown error"

\* a catch block that leaves the in-progress guard set
HandleInstallCatchKeepsGuard(md, error) ==
    [md EXCEPT !.status = Status("Installation failed: ", JStr(ErrorMessage(error))),
               !.cls = "installer-status error", !.disabled = FALSE,
               !.label = "Retry", !.pc = "idle"]

\* the catch block of handleInstall
HandleInstallCatch(md, error) ==
    [md EXCEPT !.status = Status("Installation failed: ", JStr(ErrorMessage(error))),
               !.cls = "installer-status error", !.disabled = FALSE,
               !.label = "Retry", !.isInstalling = FALSE, !.pc = "idle"]

\* what handleInstall shows once the run stands at r
Settle(md, r) ==
    CASE r.pc = "thrown" -> HandleInstallCatch(md, r.err)
      [] r.pc = "returned" -> InstallSucceeded(md)
      [] OTHER -> ShowProgress(md, r)

----------------------------------------------------------------------------
(* Actions: one per click, timer and awaited call                          *)

ClosedModal == [NewModal EXCEPT !.open = FALSE]

\* the plugin is loaded (loadSettings merges the stored record into the
\* defaults) in one of the given vaults, with one of the given archives served
InitIn(vaults, appearances, packages) ==
    /\ \E v \in vaults : files = v.files /\ dirs = v.dirs /\ persisted = v.stored
    /\ settings = persisted
    /\ appearanceFile \in appearances
    /\ package \in packages

\* the run of modal m moves to r: settings, status line and button follow
\* (the note of the stored settings is dropped when the attempt ends)
Advance(m, r) ==
    \E at \in {r} :
        /\ settings' = SettingsAfter(at, settings)
        /\ run' = [run EXCEPT ![m] =
                      [at EXCEPT !.saving = IF at.pc = "save"
                                            THEN SettingsAfter(at, settings) ELSE @,
                                 !.marked = @ \/ SettingsAfter(at, DEFAULT_SETTINGS).installed]]
        /\ modal' = [modal EXCEPT ![m] =
                        [Settle(@, at) EXCEPT !.stored = IF at.pc \in {"thrown", "returned"}
                                                         THEN DEFAULT_SETTINGS ELSE @]]
        /\ lastOk' = CASE at.pc = "thrown" -> NoSnapshot
                       [] at.pc = "returned" -> VaultSnapshot(at)
                       [] OTHER -> lastOk

\* an awaited call of the run rejects, with an Error or with another value
Fail(m, call) ==
    /\ \E isError \in BOOLEAN : Advance(m, InstallCatch(run[m], Rejection(call, isError)))
    /\ UNCHANGED <<persisted, files, dirs, appearanceFile, package, tab>>

\* ribbon icon, command or settings tab: new InstallModal(...).open()
OpenModal(m) ==
    /\ ~modal[m].open
    /\ modal' = [modal EXCEPT ![m] = NewModal]
    /\ UNCHANGED <<settings, persisted, files, dirs, appearanceFile, package, tab, run, lastOk>>

\* a click on the primary button; when an attempt starts the record of the
\* modal's previous run is dropped and the stored settings are noted
Click(m, inputs) ==
    /\ modal[m].open
    /\ \E value \in inputs :
           /\ modal' = [modal EXCEPT ![m] =
                           IF HandleClick(@, value).pc = "verify" /\ @.pc # "verify"
                           THEN [HandleClick(@, value) EXCEPT !.stored = persisted]
                           ELSE HandleClick(@, value)]
           /\ run' = [run EXCEPT ![m] = IF HandleClick(modal[m], value).pc = "verify"
                                         THEN NoRun ELSE @]
    /\ UNCHANGED <<settings, persisted, files, dirs, appearanceFile, package, tab, lastOk>>

\* a click on Cancel: the modal closes unless an attempt is in progress
Cancel(m) ==
    /\ modal[m].open
    /\ modal' = [modal EXCEPT ![m] = IF @.isInstalling THEN @ ELSE ClosedModal]
    /\ run' = [run EXCEPT ![m] = IF modal[m].isInstalling THEN @ ELSE NoRun]
    /\ UNCHANGED <<settings, persisted, files, dirs, appearanceFile, package, tab, lastOk>>

\* the timer set after a successful install closes the modal
TimerClose(m) ==
    /\ modal[m].open
    /\ modal[m].pc = "done"
    /\ modal' = [modal EXCEPT ![m] = ClosedModal]
    /\ run' = [run EXCEPT ![m] = NoRun]
    /\ UNCHANGED <<settings, persisted, files, dirs, appearanceFile, package, tab, lastOk>>

\* the awaited verifyLicense settles on one of the given outcomes of its
\* request, and handleInstall resumes
VerifyReturn(m, outcomes) ==
    /\ modal[m].pc = "verify"
    /\ \E outcome \in outcomes :
          LET c == verifyLicense(outcome)
              md == [modal[m] EXCEPT !.outcome = outcome, !.completion = c]
          IN  IF c.threw
              THEN /\ modal' = [modal EXCEPT ![m] = Rejected(md)]
                   /\ UNCHANGED settings
              ELSE IF ~c.value.valid
              THEN /\ modal' = [modal EXCEPT ![m] =
                                   [VerifyFailed(md, c.value) EXCEPT !.stored = DEFAULT_SETTINGS]]
                   /\ UNCHANGED settings
              ELSE /\ settings' = [settings EXCEPT !.licenseKey = md.key]
                   /\ modal' = [modal EXCEPT ![m] =
                                   VerifyPassed(md, [settings EXCEPT !.licenseKey = md.key])]
    /\ UNCHANGED <<persisted, files, dirs, appearanceFile, package, tab, run, lastOk>>

\* the awaited saveSettings of the license key settles; on success the
\* install run starts
SaveKey(m) ==
    /\ modal[m].pc = "saveKey"
    /\ \/ /\ persisted' = modal[m].saving
          /\ run' = [run EXCEPT ![m] = BeginRun(settings, modal[m].saving, lastOk)]
          /\ modal' = [modal EXCEPT ![m] =
                          ShowProgress([StartInstall(@, @.completion.value) EXCEPT
                                           !.outcome = NoOutcome,
                                           !.completion = NewModal.completion],
                                       BeginRun(settings, modal[m].saving, lastOk))]
       \/ /\ modal' = [modal EXCEPT ![m] = Rejected(@)]
          /\ UNCHANGED <<persisted, run>>
    /\ UNCHANGED <<settings, files, dirs, appearanceFile, package, tab, lastOk>>

\* requestUrl(PLUGIN_DOWNLOAD_URL) settles
Download(m) ==
    /\ run[m].pc = "download"
    /\ \/ /\ Advance(m, AfterDownload(run[m]))
          /\ UNCHANGED <<persisted, files, dirs, appearanceFile, package, tab>>
       \/ Fail(m, "download")

\* JSZip.loadAsync(zipData) settles
Decode(m) ==
    /\ run[m].pc = "decode"
    /\ \/ /\ Advance(m, AfterLoad(run[m], package))
          /\ UNCHANGED <<persisted, files, dirs, appearanceFile, package, tab>>
       \/ Fail(m, "decode")

\* entry.async('arraybuffer') of the entry being read settles
EntryAsync(m) ==
    /\ run[m].pc = "entryAsync"
    /\ \/ /\ Advance(m, AfterAsync(run[m], package))
          /\ UNCHANGED <<persisted, files, dirs, appearanceFile, package, tab>>
       \/ Fail(m, "entryAsync")

\* adapter.exists(dir) settles
Exists(m) ==
    /\ run[m].pc = "exists"
    /\ \/ /\ Advance(m, AfterExists(run[m], DirExists(DirOf(run[m].targetPath))))
          /\ UNCHANGED <<persisted, files, dirs, appearanceFile, package, tab>>
       \/ Fail(m, "exists")

\* adapter.mkdir(dir) settles
Mkdir(m) ==
    /\ run[m].pc = "mkdir"
    /\ \/ /\ dirs' = dirs \cup Ancestors(DirOf(run[m].targetPath))
          /\ Advance(m, AfterMkdir(run[m]))
          /\ UNCHANGED <<persisted, files, appearanceFile, package, tab>>
       \/ Fail(m, "mkdir")

\* adapter.writeBinary(targetPath, file.content) settles
WriteBinary(m) ==
    /\ run[m].pc = "writeBinary"
    /\ \/ /\ files' = WriteFile(files, run[m].targetPath, run[m].files[run[m].i].content)
          /\ Advance(m, AfterWrite(run[m]))
          /\ UNCHANGED <<persisted, dirs, appearanceFile, package, tab>>
       \/ Fail(m, "writeBinary")

\* enableSnippets: adapter.exists(appearancePath) settles
EditExists(m) ==
    /\ run[m].pc = "editExists"
    /\ \/ Advance(m, [run[m] EXCEPT !.pc = IF appearanceFile # Absent
                                            THEN "editRead" ELSE "editExistsSnippets"])
       \/ Advance(m, EditCatch(run[m], "exists"))
    /\ UNCHANGED <<persisted, files, dirs, appearanceFile, package, tab>>

\* enableSnippets: adapter.read(appearancePath) settles, then JSON.parse
EditRead(m) ==
    /\ run[m].pc = "editRead"
    /\ \/ IF ParseThrows(appearanceFile)
          THEN Advance(m, EditCatch(run[m], "parse"))
          ELSE Advance(m, [run[m] EXCEPT !.appearance = Parse(appearanceFile),
                                         !.pc = "editExistsSnippets"])
       \/ Advance(m, EditCatch(run[m], "read"))
    /\ UNCHANGED <<persisted, files, dirs, appearanceFile, package, tab>>

\* enableSnippets: adapter.exists(snippetsPath) settles
EditExistsSnippets(m) ==
    /\ run[m].pc = "editExistsSnippets"
    /\ \/ IF DirExists(SnippetsPath)
          THEN Advance(m, [run[m] EXCEPT !.pc = "editList"])
          ELSE Advance(m, AfterEdit(run[m]))
       \/ Advance(m, EditCatch(run[m], "exists"))
    /\ UNCHANGED <<persisted, files, dirs, appearanceFile, package, tab>>

\* enableSnippets: adapter.list(snippetsPath) settles, the list is edited
\* and adapter.write is called
EditList(m) ==
    /\ run[m].pc = "editList"
    /\ \/ \E listing \in ListFiles(SnippetsPath) :
             IF EditThrows(run[m].appearance)
             THEN Advance(m, EditCatch(run[m], "TypeError"))
             ELSE Advance(m, [run[m] EXCEPT
                      !.appearance = EditDocument(@, SnippetNames(listing)),
                      !.listing = listing,
                      !.pc = "editWrite"])
       \/ Advance(m, EditCatch(run[m], "list"))
    /\ UNCHANGED <<persisted, files, dirs, appearanceFile, package, tab>>

\* enableSnippets: adapter.write(appearancePath, ...) settles
EditWrite(m) ==
    /\ run[m].pc = "editWrite"
    /\ \/ /\ appearanceFile' = Stringify(run[m].appearance)
          /\ Advance(m, AfterEdit(run[m]))
       \/ /\ Advance(m, EditCatch(run[m], "write"))
          /\ UNCHANGED appearanceFile
    /\ UNCHANGED <<persisted, files, dirs, package, tab>>

\* the saveSettings that ends installMonolithos settles
Save(m) ==
    /\ run[m].pc = "save"
    /\ \/ /\ persisted' = run[m].saving
          /\ Advance(m, InstallReturn(run[m]))
          /\ UNCHANGED <<files, dirs, appearanceFile, package, tab>>
       \/ Fail(m, "save")

\* settings tab: display(), which the host calls each time the user opens the
\* tab; the tab is emptied and the Clear button drawn when a license key is set
Display ==
    /\ tab' = [tab EXCEPT !.shown = settings.licenseKey # <<>>]
    /\ UNCHANGED <<settings, persisted, files, dirs, appearanceFile, package, modal, run,
                   lastOk>>

\* settings tab: a click on the Clear button, which is there to click while
\* the last display() drew it. The handler tests nothing: the key is cleared
\* and saveSettings awaited, also while an earlier save is pending or after
\* one was rejected
ClearLicense ==
    /\ tab.shown
    /\ Len(tab.pending) < MaxPending
    /\ settings' = [settings EXCEPT !.licenseKey = <<>>]
    /\ tab' = [tab EXCEPT !.pending = Append(@, [settings EXCEPT !.licenseKey = <<>>])]
    /\ UNCHANGED <<persisted, files, dirs, appearanceFile, package, modal, run, lastOk>>

\* settings tab: the awaited saveSettings of a Clear handler settles; when the
\* record handed to saveData was stored the handler draws the tab again, when
\* the save was rejected the handler ends there
ClearSaved ==
    /\ \E j \in 1..Len(tab.pending) :
           \/ /\ persisted' = tab.pending[j]
              /\ tab' = [shown |-> settings.licenseKey # <<>>,
                         pending |-> Without(tab.pending, j)]
           \/ /\ tab' = [tab EXCEPT !.pending = Without(@, j)]
              /\ UNCHANGED persisted
    /\ UNCHANGED <<settings, files, dirs, appearanceFile, package, modal, run, lastOk>>

\* the steps of installMonolithos
RunStep(m) ==
    \/ Download(m)
    \/ Decode(m)
    \/ EntryAsync(m)
    \/ Exists(m)
    \/ Mkdir(m)
    \/ WriteBinary(m)
    \/ EditExists(m)
    \/ EditRead(m)
    \/ EditExistsSnippets(m)
    \/ EditList(m)
    \/ EditWrite(m)
    \/ Save(m)

\* the steps of a modal and of its handleInstall
ModalStep(m, inputs, outcomes) ==
    \/ OpenModal(m)
    \/ Click(m, inputs)
    \/ Cancel(m)
    \/ TimerClose(m)
    \/ VerifyReturn(m, outcomes)
    \/ SaveKey(m)

\* no modal is open and nothing has run
Unopened ==
    /\ modal = [m \in Modals |-> ClosedModal]
    /\ run = [m \in Modals |-> NoRun]
    /\ lastOk = NoSnapshot
    /\ tab = NoTab

Init == InitIn(InitialVaults, InitialAppearance, Packages \cup {ExamplePackage}) /\ Unopened

\* install runs from one modal, over every archive and vault
Next == ModalStep(FirstModal, FewInputs, FewOutcomes) \/ RunStep(FirstModal)

Spec == Init /\ [][Next]_vars

InitVerify == InitIn({NewVault}, {Absent}, {ExamplePackage}) /\ Unopened

\* one modal and the settings tab, over every input and every response
NextVerify ==
    \/ ModalStep(FirstModal, Inputs, Outcomes)
    \/ RunStep(FirstModal)
    \/ Display
    \/ ClearLicense
    \/ ClearSaved

SpecVerify == InitVerify /\ [][NextVerify]_vars

----------------------------------------------------------------------------
(* verifyLicense                                                           *)

ConnectError == Result(FALSE, JUndef, JStr("Could not connect to server"))

\* C1: verifyLicense never throws: whatever the request came to (any body, null
\* and bodies without a valid field included, a transport failure, a body that
\* does not parse) the caller holds a result object, and after a transport or
\* parse failure that object is {valid: false, error: 'Could not connect to server'}
C1_VerifyNeverThrows ==
    \A m \in Modals :
        modal[m].outcome # NoOutcome =>
            /\ ~modal[m].completion.threw
            /\ modal[m].completion.value.valid \in BOOLEAN
            /\ modal[m].outcome.kind \in {"transport", "unparsable"} =>
                   modal[m].completion.value = ConnectError

\* a request that failed in transport has been answered with the connect error
C1_Witness ==
    \E m \in Modals :
        /\ modal[m].outcome.kind = "transport"
        /\ modal[m].completion.value = ConnectError
        /\ modal[m].pc = "idle"

WellFormed(outcome) == outcome.kind = "json" /\ outcome.body.t = "obj"

\* C2 as stated: the result follows from the response alone; a truthy valid
\* gives {valid: true, tier}, otherwise the error is the message when one is
\* supplied and 'Invalid license key' when none is
C2_AsStated ==
    \A m \in Modals :
        WellFormed(modal[m].outcome) =>
            LET body == modal[m].outcome.body
                result == modal[m].completion.value
            IN  /\ ~modal[m].completion.threw
                /\ Truthy(body.valid) => result = Result(TRUE, body.tier, JUndef)
                /\ ~Truthy(body.valid) /\ body.message # JUndef =>
                       result = Result(FALSE, JUndef, body.message)
                /\ ~Truthy(body.valid) /\ body.message = JUndef =>
                       result = Result(FALSE, JUndef, JStr("Invalid license key"))

\* C2 amended: the error is the message when a non-empty message is supplied,
\* and 'Invalid license key' when the message is missing or empty
C2_ResultFromResponse ==
    \A m \in Modals :
        WellFormed(modal[m].outcome) =>
            LET body == modal[m].outcome.body
                result == modal[m].completion.value
            IN  /\ ~modal[m].completion.threw
                /\ Truthy(body.valid) => result = Result(TRUE, body.tier, JUndef)
                /\ ~Truthy(body.valid) /\ body.message \notin {JUndef, JStr("")} =>
                       result = Result(FALSE, JUndef, body.message)
                /\ ~Truthy(body.valid) /\ body.message \in {JUndef, JStr("")} =>
                       result = Result(FALSE, JUndef, JStr("Invalid license key"))

\* a refusal with an empty message has been answered with the generic error
C2_Witness ==
    \E m \in Modals :
        /\ WellFormed(modal[m].outcome)
        /\ modal[m].outcome.body.valid = JBool(FALSE)
        /\ modal[m].outcome.body.message = JStr("")
        /\ modal[m].completion.value = Result(FALSE, JUndef, JStr("Invalid license key"))

----------------------------------------------------------------------------
(* installMonolithos                                                       *)

\* the entry's path holds one of the two markers
Recognized(path) == Includes(path, PluginMarker) \/ Includes(path, SnippetMarker)

\* the file entries of the archive that go to a recognized target
MappedEntries == SelectSeq(package, LAMBDA e : ~e.dir /\ Recognized(e.path))

Steps1to4 == {"download", "decode", "entryAsync", "exists", "mkdir", "writeBinary"}

Active(m) == run[m].pc \notin {"idle", "thrown", "returned"}

Wrote(r, e) == \E j \in 1..Len(r.written) : r.written[j].content = e.content

\* C3: a run has set settings.installed only after every file entry with a
\* recognized target was written by writeBinary and enableSnippets has been
\* called and has returned, with or without a caught error
C3_InstalledAfterWritesAndEdit ==
    \A m \in Modals :
        (run[m].marked \/ (run[m].pc # "idle" /\ settings.installed
                             /\ ~run[m].before.settings.installed)) =>
            /\ \A j \in 1..Len(MappedEntries) : Wrote(run[m], MappedEntries[j])
            /\ run[m].editReturned

\* a run has marked a vault that was not installed, after two writes and an
\* edit that caught an error
C3_Witness ==
    \E m \in Modals :
        /\ run[m].marked /\ settings.installed /\ ~run[m].before.settings.installed
        /\ Len(run[m].written) = 2
        /\ run[m].editError # ""

\* C4: when the download, the decode or a file write of steps 1-4 throws,
\* installed and installedVersion, in memory and as persisted, are what they
\* were before the run
C4_ThrowLeavesInstalledFlag ==
    \A m \in Modals :
        run[m].pc = "thrown" /\ run[m].err.call \in Steps1to4 =>
            /\ settings.installed = run[m].before.settings.installed
            /\ settings.installedVersion = run[m].before.settings.installedVersion
            /\ persisted.installed = run[m].before.persisted.installed
            /\ persisted.installedVersion = run[m].before.persisted.installedVersion

\* a write threw after an earlier file was written, in a vault not yet installed
C4_Witness ==
    \E m \in Modals :
        /\ run[m].pc = "thrown" /\ run[m].err.call = "writeBinary"
        /\ Len(run[m].written) = 1
        /\ ~settings.installed /\ ~persisted.installed

\* content of the last write of the run to a path
LastWritten(r, path) ==
    r.written[SetMax({j \in 1..Len(r.written) : r.written[j].path = path})].content

RECURSIVE IsPrefix(_, _)
IsPrefix(s, t) ==
    s = <<>> \/ (t # <<>> /\ Head(s).content = Head(t).content /\ IsPrefix(Tail(s), Tail(t)))

\* C5: an error of the download, the decode, exists, mkdir or writeBinary is
\* rethrown (the run does not return true and the modal shows the failure);
\* after it nothing more is written, enableSnippets and saveSettings are not
\* called, and the files written before it hold what was written
C5_ErrorPropagates ==
    \A m \in Modals :
        run[m].err.call \in Steps1to4 =>
            /\ run[m].pc = "thrown"
            /\ modal[m].pc # "done" /\ modal[m].label # "Done!"
            /\ IsPrefix(run[m].written, MappedEntries)
            /\ Len(run[m].written) < Len(MappedEntries) \/ run[m].err.call \in {"download", "decode", "entryAsync"}
            /\ run[m].err.call \in {"download", "decode", "entryAsync"} => run[m].written = <<>>
            /\ ~run[m].editReturned /\ run[m].appearance = JUndef
            /\ \A j \in 1..Len(run[m].progress) :
                   run[m].progress[j] \notin {"Configuring appearance...", "Installation complete!"}
            /\ ~run[m].marked
            /\ persisted = run[m].before.persisted
            /\ \A j \in 1..Len(run[m].written) :
                   /\ run[m].written[j].path \in DOMAIN files
                   /\ files[run[m].written[j].path] = LastWritten(run[m], run[m].written[j].path)

\* the check of the second file's directory threw: the first file stays written
C5_Witness ==
    \E m \in Modals :
        /\ run[m].pc = "thrown" /\ run[m].err.call = "exists"
        /\ Len(run[m].written) = 1
        /\ modal[m].label = "Retry"
        /\ files[run[m].written[1].path] = run[m].written[1].content

\* C6: an error inside the appearance edit (malformed or null document, a
\* failed exists, read, list or write) does not fail the install: enableSnippets
\* returns, the run goes on to save the settings, only that save can still
\* throw, and a run that returned has installed = true
C6_EditFailureIsNotFatal ==
    \A m \in Modals :
        run[m].editError # "" =>
            /\ run[m].editReturned
            /\ run[m].pc \in {"save", "returned", "thrown"}
            /\ run[m].pc = "thrown" => run[m].err.call = "save"
            /\ run[m].marked /\ (run[m].pc # "thrown" => settings.installed)
            /\ run[m].pc = "returned" =>
                   /\ persisted.installed /\ persisted.installedVersion = "1.0.0"
                   /\ modal[m].label = "Done!"

\* the document was malformed and the run returned true all the same
C6_Witness ==
    \E m \in Modals :
        /\ run[m].editError = "parse"
        /\ appearanceFile = Malformed
        /\ run[m].pc = "returned"
        /\ settings.installed /\ persisted.installed

RECURSIVE Contents(_)
Contents(s) == IF s = <<>> THEN <<>> ELSE <<Head(s).content>> \o Contents(Tail(s))

RECURSIVE Paths(_)
Paths(s) == IF s = <<>> THEN <<>> ELSE <<Head(s).path>> \o Paths(Tail(s))

MainJsTarget == <<".", "o", "b", "s", "i", "d", "i", "a", "n", "/", "p", "l", "u", "g", "i", "n", "s", "/", "m", "o", "n", "o", "l", "i", "t", "h", "o", "s", "/", "m", "a", "i", "n", ".", "j", "s">>

ThemeCssTarget == <<".", "o", "b", "s", "i", "d", "i", "a", "n", "/", "s", "n", "i", "p", "p", "e", "t", "s", "/", "t", "h", "e", "m", "e", ".", "c", "s", "s">>

\* C7: a run that returned true called writeBinary once for each file entry
\* whose path holds 'plugins/monolithos/' or 'snippets/', in the archive's
\* order, and for no other entry; the archive of main.js, theme.css and
\* readme.txt gives two writes, under plugins/monolithos/ and under snippets/
C7_WritesExactlyRecognized ==
    \A m \in Modals :
        run[m].pc = "returned" =>
            /\ Contents(run[m].written) = Contents(MappedEntries)
            /\ \A j \in 1..Len(run[m].written) :
                   \/ StartsWith(run[m].written[j].path, ConfigDir \o Slash \o PluginMarker)
                   \/ StartsWith(run[m].written[j].path, ConfigDir \o Slash \o SnippetMarker)
            /\ package = ExamplePackage =>
                   Paths(run[m].written) = <<MainJsTarget, ThemeCssTarget>>

\* the archive of the example was installed with two writes
C7_Witness ==
    \E m \in Modals :
        /\ run[m].pc = "returned"
        /\ package = ExamplePackage
        /\ Len(run[m].written) = 2

EnabledList(text) ==
    IF text.value.t = "obj" /\ text.value.enabledCssSnippets.t = "arr"
    THEN text.value.enabledCssSnippets.v ELSE <<>>

NoDuplicates(list) == \A j, k \in 1..Len(list) : list[j] = list[k] => j = k

\* the run returned true right after a run that returned true
SecondRun(m) == run[m].pc = "returned" /\ run[m].prev.set

SameVault(m) ==
    /\ files = run[m].prev.files
    /\ appearanceFile = run[m].prev.appearance
    /\ EnabledList(appearanceFile) = EnabledList(run[m].prev.appearance)
    /\ NoDuplicates(EnabledList(appearanceFile))

\* C8 as stated: a second successful run over the same archive leaves every
\* file and the enabled-snippets list as the first left them, without duplicates
C8_AsStated == \A m \in Modals : SecondRun(m) => SameVault(m)

\* bare names of the '.css' files of the snippets directory that hold a keyword
KeywordSnippets ==
    {SubSeq(SplitLast(f), 1, Len(SplitLast(f)) - Len(CssSuffix)) :
        f \in {g \in DOMAIN files :
                  /\ DirOf(g) = SnippetsPath /\ EndsWith(g, CssSuffix)
                  /\ \E k \in Keywords : Includes(SplitLast(g), k)}}

\* the first run's edit caught an error and the second run's edit did not
EditOnlyInSecond(m) == run[m].prev.editFailed /\ run[m].editError = ""

\* C8 amended: after every second successful run over the same archive the
\* files and directories are those the first run left and the list holds no
\* name twice; the appearance document is the one the first run left, except
\* when the first run's edit caught an error and the second run's did not:
\* then the second run makes the edit the first run skipped, and the list is
\* the one the first run left followed by keyword snippets that were not in it
C8_SecondRunChangesNothing ==
    \A m \in Modals :
        SecondRun(m) =>
            /\ files = run[m].prev.files
            /\ dirs = run[m].prev.dirs
            /\ NoDuplicates(EnabledList(appearanceFile))
            /\ ~EditOnlyInSecond(m) => SameVault(m)
            /\ EditOnlyInSecond(m) =>
                   LET old == EnabledList(run[m].prev.appearance)
                       new == EnabledList(appearanceFile)
                   IN  /\ Len(new) >= Len(old)
                       /\ SubSeq(new, 1, Len(old)) = old
                       /\ \A j \in (Len(old) + 1)..Len(new) :
                              /\ new[j] \in KeywordSnippets
                              /\ \A k \in 1..Len(old) : old[k] # new[j]
                       /\ \A n \in KeywordSnippets :
                              DirExists(SnippetsPath) => \E j \in 1..Len(new) : new[j] = n

\* a second run came back over a list the first run had extended
C8_Witness ==
    \E m \in Modals :
        /\ SecondRun(m) /\ ~run[m].prev.editFailed /\ run[m].editError = ""
        /\ Len(run[m].written) = 2
        /\ Len(EnabledList(appearanceFile)) = 3

----------------------------------------------------------------------------
(* The modal                                                               *)

InitUI == InitIn({NewVault}, {Absent}, {<<Pool[5]>>}) /\ Unopened

\* several modals, opened from the ribbon icon, the command or the settings tab
NextUI == \E m \in Modals : ModalStep(m, FewInputs, FewOutcomes) \/ RunStep(m)

SpecUI == InitUI /\ [][NextUI]_vars

\* handleInstall of modal m is between its guard being set and its end
Attempting(m) == modal[m].pc \in {"verify", "saveKey", "install"}

\* C9: whatever the order of clicks and of modals opened, at most one
\* verify-and-install flow and at most one installMonolithos is in progress
C9_AtMostOneRun ==
    /\ Cardinality({m \in Modals : Attempting(m)}) <= 1
    /\ Cardinality({m \in Modals : Active(m)}) <= 1

\* the install run of modal m has just thrown
Caught(m) == run[m].pc # "thrown" /\ run'[m].pc = "thrown"

FailureShown(md, r) ==
    /\ md.status = Status("Installation failed: ",
                           JStr(IF r.err.isError THEN r.err.message ELSE "Unknown error"))
    /\ md.cls = "installer-status error"
    /\ md.label = "Retry"
    /\ ~md.disabled
    /\ ~md.isInstalling

\* C10 as stated: when the install sequence throws, handleInstall shows
\* 'Installation failed: <message>' and 'Retry', enables the button, clears
\* the guard, and the persisted settings are what they were before the attempt
C10_AsStated ==
    [][\A m \in Modals :
          Caught(m) => FailureShown(modal'[m], run'[m]) /\ persisted' = modal[m].stored]_vars

\* C10 amended: the same for the status, the label, the button and the guard;
\* the install sequence and the handler write nothing to the persisted
\* settings, which hold what the save of the license key after the valid
\* verification put there: the record of before the attempt with the trimmed
\* key, and with the in-memory installed flag and version
C10_FailureShownKeySaved ==
    [][\A m \in Modals :
          Caught(m) =>
              /\ FailureShown(modal'[m], run'[m])
              /\ persisted' = persisted
              /\ persisted' = run'[m].before.persisted
              /\ persisted'.licenseKey = modal'[m].key
              /\ persisted' = [run'[m].before.settings EXCEPT !.licenseKey = modal'[m].key]]_vars

\* the read of an entry rejected with a value that is not an Error: the
\* failure is shown as 'Unknown error', with the new key persisted and the
\* flag untouched
C10_Witness ==
    \E m \in Modals :
        /\ run[m].pc = "thrown" /\ run[m].err.call = "entryAsync" /\ ~run[m].err.isError
        /\ FailureShown(modal[m], run[m])
        /\ modal[m].status = Status("Installation failed: ", JStr("Unknown error"))
        /\ persisted = [DEFAULT_SETTINGS EXCEPT !.licenseKey = K1]

----------------------------------------------------------------------------
(* Phases and order of the steps                                           *)

Phases ==
    <<"Downloading Monolithos...", "Extracting files...", "Installing files...",
      "Configuring appearance...", "Installation complete!">>

\* number of phases reported once the step named has started
PhasesAt(step) ==
    CASE step = "download" -> 1
      [] step \in {"decode", "entryAsync"} -> 2
      [] step \in {"exists", "mkdir", "writeBinary"} -> 3
      [] step \in {"editExists", "editRead", "editExistsSnippets", "editList", "editWrite"} -> 4
      [] OTHER -> 5

\* C11: the callback receives the five phase strings in their fixed order, each
\* before its step starts (the download, the decode, the first write, the
\* appearance edit); a run that failed has reported a prefix of the sequence
\* that ends with the phase of the failing step
C11_PhasesInOrder ==
    \A m \in Modals :
        run[m].pc # "idle" =>
            /\ Len(run[m].progress) \in 1..Len(Phases)
            /\ run[m].progress = SubSeq(Phases, 1, Len(run[m].progress))
            /\ Active(m) => Len(run[m].progress) = PhasesAt(run[m].pc)
            /\ run[m].pc = "thrown" => Len(run[m].progress) = PhasesAt(run[m].err.call)
            /\ run[m].pc = "returned" => run[m].progress = Phases
            /\ Len(run[m].progress) < 3 => run[m].written = <<>>
            /\ Len(run[m].progress) < 4 => run[m].appearance = JUndef /\ ~run[m].editReturned
            /\ Active(m) => modal[m].status = Status(run[m].progress[Len(run[m].progress)], JUndef)

\* a write failed after three phases had been reported
C11_Witness ==
    \E m \in Modals :
        /\ run[m].pc = "thrown" /\ run[m].err.call = "writeBinary"
        /\ run[m].progress = SubSeq(Phases, 1, 3)

----------------------------------------------------------------------------
(* Requests                                                                *)

\* the POST of a license key and nothing else
KeyOnlyPost(key) ==
    [url |-> "https://api.monolithos.ai/verify", method |-> "POST",
     contentType |-> "application/json",
     body |-> [fmt |-> "compact", value |-> [t |-> "obj", license_key |-> key]]]

PackageGet ==
    [url |-> "https://api.monolithos.ai/download/MONOLITHOS_PLUGIN_v1.0.zip",
     method |-> "GET", contentType |-> "", body |-> JUndef]

\* C12: whatever the settings, the vault and the install status, the request
\* of verifyLicense is the POST to the verification URL whose body holds the
\* trimmed key as license_key and no other field; the only other request is
\* the GET of the package from the download URL
C12_RequestFromKeyOnly ==
    \A m \in Modals :
        /\ modal[m].request = IF modal[m].key = <<>> THEN NoRequest ELSE KeyOnlyPost(modal[m].key)
        /\ run[m].request = IF run[m].pc = "idle" THEN NoRequest ELSE PackageGet
        /\ Attempting(m) => modal[m].request = KeyOnlyPost(modal[m].key)

\* the same key was posted from an installed vault holding another key
C12_Witness ==
    \E m \in Modals :
        /\ modal[m].pc = "verify"
        /\ modal[m].request = KeyOnlyPost(K1)
        /\ settings.installed /\ settings.licenseKey = K2
        /\ DOMAIN files # {}

----------------------------------------------------------------------------
(* The flow and the settings record                                        *)

\* a step of modal m's handler that neither opened nor closed the modal
HandlerStep(m) == modal'[m] # modal[m] /\ modal[m].open /\ modal'[m].open

\* the parts of the flow that come before the install: a click that starts no
\* attempt (a key that is empty or white space only, whichever white space
\* trim() strips) and a verification that returned valid = false leave the
\* settings, in memory and persisted, as they were and start no install; an
\* attempt never holds a blank key; the flow sets licenseKey only when
\* verifyLicense returned valid = true, to the trimmed key; the install starts
\* only after that and after the key was stored
FrameBeforeInstall(m) ==
    /\ HandlerStep(m) /\ modal[m].pc = "idle" /\ modal'[m].pc = "idle" =>
           settings' = settings /\ persisted' = persisted /\ run' = run
    /\ modal[m].pc = "verify" /\ modal'[m].pc = "idle" =>
           /\ ~modal'[m].completion.value.valid
           /\ settings' = settings /\ persisted' = persisted
           /\ run' = run /\ run[m].pc = "idle"
    /\ Attempting(m)' => modal'[m].key # <<>> /\ Trim(modal'[m].key) = modal'[m].key
    /\ HandlerStep(m) /\ settings'.licenseKey # settings.licenseKey =>
           /\ modal[m].pc = "verify"
           /\ modal'[m].completion.value.valid = TRUE
           /\ Truthy(modal'[m].outcome.body.valid)
           /\ settings' = [settings EXCEPT !.licenseKey = modal[m].key]
    /\ run[m].pc # "download" /\ run'[m].pc = "download" =>
           /\ modal[m].pc = "saveKey" /\ modal[m].completion.value.valid = TRUE
           /\ persisted'.licenseKey = modal[m].key

\* installed and installedVersion, in memory, as the run of modal m found them
FlagAsBefore(m) ==
    /\ settings.installed = run[m].before.settings.installed
    /\ settings.installedVersion = run[m].before.settings.installedVersion

\* C13: the flow mutates the settings only after a successful verification
\* and after a successful install: a click with a blank key and a refused
\* key change nothing and start no install, licenseKey is set to the trimmed
\* key only after valid = true, and installed and installedVersion are
\* changed in memory only by an install that succeeds: a run that has thrown
\* leaves them as it found them
C13_SettingsFrame ==
    [][\A m \in Modals :
          /\ FrameBeforeInstall(m)
          /\ run'[m].pc = "thrown" => FlagAsBefore(m)']_vars

\* the parts of C13 that the code keeps: the frame before the install, and
\* installed and installedVersion set in memory only as a run comes to its
\* final save, every recognized entry written and the edit returned; a run
\* that threw with the flag changed threw at that save
C13_FrameAndFlagAtSave ==
    [][\A m \in Modals :
          /\ FrameBeforeInstall(m)
          /\ settings'.installed # settings.installed \/
             settings'.installedVersion # settings.installedVersion =>
                 \E n \in Modals :
                     /\ run[n].pc # "save" /\ run'[n].pc = "save"
                     /\ run'[n].editReturned
                     /\ Len(run'[n].written) = Len(MappedEntries)
          /\ run'[m].pc = "thrown" /\ ~FlagAsBefore(m)' => run'[m].err.call = "save"]_vars

----------------------------------------------------------------------------
(* The primary button                                                      *)

LabelMoves ==
    {<<"Verify & install", "Verifying...">>, <<"Retry", "Verifying...">>,
     <<"Verifying...", "Installing...">>, <<"Verifying...", "Verify & install">>,
     <<"Installing...", "Done!">>, <<"Installing...", "Retry">>}

DisabledLabels == {"Verifying...", "Installing...", "Done!"}

\* C14: the label of an open modal's button changes only along the cycle:
\* to 'Verifying...' from 'Verify & install' or 'Retry' by a click with a
\* non-blank key, to 'Installing...' from 'Verifying...' after a valid
\* verification, to 'Done!' and 'Retry' from 'Installing...', back to
\* 'Verify & install' after a refusal; the button is disabled exactly under
\* 'Verifying...', 'Installing...' and 'Done!'
C14_LabelCycle ==
    [][\A m \in Modals :
          /\ modal[m].disabled <=> modal[m].label \in DisabledLabels
          /\ modal'[m].disabled <=> modal'[m].label \in DisabledLabels
          /\ modal[m].open /\ modal'[m].open /\ modal'[m].label # modal[m].label =>
                 /\ <<modal[m].label, modal'[m].label>> \in LabelMoves
                 /\ modal'[m].label = "Verifying..." =>
                        /\ modal[m].pc = "idle" /\ modal'[m].pc = "verify"
                        /\ modal'[m].key # <<>>
                 /\ modal'[m].label = "Installing..." =>
                        modal[m].pc = "saveKey" /\ modal[m].completion.value.valid = TRUE
                 /\ modal'[m].label = "Verify & install" =>
                        modal[m].pc = "verify" /\ ~modal'[m].completion.value.valid
                 /\ modal'[m].label = "Done!" => run'[m].pc = "returned"
                 /\ modal'[m].label = "Retry" => run'[m].pc = "thrown"
          /\ modal[m].pc = "verify" /\ modal'[m].pc = "idle" =>
                 modal'[m].label = "Verify & install"
          /\ modal[m].open /\ modal'[m].open /\ modal[m].pc = "idle" /\ modal'[m].pc = "idle" =>
                 modal'[m].label = modal[m].label]_vars

\* a key was refused after an earlier one had been accepted: the label is
\* back at 'Verify & install'
C14_Witness ==
    \E m \in Modals :
        /\ modal[m].open /\ modal[m].label = "Verify & install" /\ ~modal[m].disabled
        /\ modal[m].outcome.kind = "json" /\ ~modal[m].completion.value.valid
        /\ settings.licenseKey # <<>>

----------------------------------------------------------------------------
(* enableSnippets                                                          *)

\* the document enableSnippets starts from: the parsed file, or {} without one
PriorDocument == IF appearanceFile = Absent THEN Appearance(JUndef, JUndef) ELSE Parse(appearanceFile)

PriorList ==
    IF PriorDocument.enabledCssSnippets.t = "arr" THEN PriorDocument.enabledCssSnippets.v ELSE <<>>

\* name of a '.css' file: its last path segment without the ending
BareName(f) == SubSeq(SplitLast(f), 1, Len(SplitLast(f)) - Len(CssSuffix))

RECURSIVE BareNames(_)
BareNames(fs) == IF fs = <<>> THEN <<>> ELSE <<BareName(Head(fs))>> \o BareNames(Tail(fs))

\* bare names of the '.css' files of the listing the host gave, in its order
Candidates(m) == BareNames(SelectSeq(run[m].listing, LAMBDA f : EndsWith(f, CssSuffix)))

\* the listing the host gave holds each file of the snippets directory once
ListsDirectory(m) ==
    /\ {run[m].listing[j] : j \in 1..Len(run[m].listing)}
           = {f \in DOMAIN files : DirOf(f) = SnippetsPath}
    /\ \A j, k \in 1..Len(run[m].listing) : run[m].listing[j] = run[m].listing[k] => j = k

\* C15: with the snippets directory present and the document readable, the
\* list enableSnippets writes is the prior list, entries and order kept,
\* followed, in the order the host listed the directory, by each bare name of
\* a '.css' file of the snippets directory that holds a keyword and was not in
\* the prior list; nothing is appended twice or without a keyword, the other
\* fields are kept, and this document is what is written
C15_ListExtended ==
    \A m \in Modals :
        /\ run[m].pc = "editWrite" =>
               LET new == run[m].appearance.enabledCssSnippets.v
                   added == SubSeq(new, Len(PriorList) + 1, Len(new))
               IN  /\ ListsDirectory(m)
                   /\ run[m].appearance.t = "obj"
                   /\ run[m].appearance.enabledCssSnippets.t = "arr"
                   /\ Len(new) >= Len(PriorList)
                   /\ SubSeq(new, 1, Len(PriorList)) = PriorList
                   /\ added = SelectSeq(Candidates(m),
                                        LAMBDA n : /\ \E k \in Keywords : Includes(n, k)
                                                   /\ \A j \in 1..Len(PriorList) : PriorList[j] # n)
                   /\ \A j, k \in 1..Len(added) : added[j] = added[k] => j = k
                   /\ run[m].appearance.theme = PriorDocument.theme
        /\ run[m].pc \in {"save", "returned"} /\ run[m].editError = "" /\ DirExists(SnippetsPath) =>
               /\ appearanceFile = [fmt |-> "pretty2", value |-> run[m].appearance]
               /\ run[m].appearance.enabledCssSnippets.t = "arr"

Canvas == <<"c", "a", "n", "v", "a", "s">>

Sovereign == <<"s", "o", "v", "e", "r", "e", "i", "g", "n">>

\* the host listed sovereign before theme before canvas: sovereign and canvas
\* are appended in that order to the list of oracle and mine; theme is left
\* out
C15_Witness ==
    \E m \in Modals :
        /\ run[m].pc = "editWrite"
        /\ PriorList = <<Oracle, Mine>>
        /\ Candidates(m) = <<Sovereign, <<"t", "h", "e", "m", "e">>, Canvas>>
        /\ run[m].appearance.enabledCssSnippets.v = <<Oracle, Mine, Sovereign, Canvas>>

----------------------------------------------------------------------------
(* Order of the steps of a run                                             *)

WriteSteps == {"exists", "mkdir", "writeBinary"}

EditSteps == {"editExists", "editRead", "editExistsSnippets", "editList", "editWrite"}

\* from each awaited call, the awaited calls that may come next
StepMoves ==
    {<<"idle", "download">>, <<"download", "decode">>,
     <<"decode", "entryAsync">>, <<"decode", "editExists">>,
     <<"entryAsync", "exists">>, <<"entryAsync", "editExists">>,
     <<"exists", "mkdir">>, <<"exists", "writeBinary">>, <<"mkdir", "writeBinary">>,
     <<"writeBinary", "exists">>, <<"writeBinary", "editExists">>,
     <<"editExists", "editRead">>, <<"editExists", "editExistsSnippets">>,
     <<"editRead", "editExistsSnippets">>, <<"editExistsSnippets", "editList">>,
     <<"editList", "editWrite">>, <<"save", "returned">>} \cup
    {<<e, "save">> : e \in EditSteps} \cup
    {<<s, "thrown">> : s \in Steps1to4 \cup {"save"}} \cup
    {<<"thrown", "idle">>, <<"returned", "idle">>}

\* the entries of the run's files before index i that have a target
MappedBefore(r, i) ==
    SelectSeq(SubSeq(r.files, 1, i - 1), LAMBDA e : Recognized(e.path))

\* C16: the awaited calls of a run follow one another in the order of the
\* sequence: decode after the download, the file entries read one after the
\* other in archive order and all of them before the first write, for each
\* mapped entry exists (and mkdir when the directory is
\* missing) before its writeBinary, the writes one entry after the other,
\* the edit after the last write, and saveSettings last
C16_StepsInOrder ==
    [][\A m \in Modals :
          /\ run'[m].pc # run[m].pc => <<run[m].pc, run'[m].pc>> \in StepMoves
          /\ run'[m].pc = "entryAsync" =>
                 /\ ~package[run'[m].entry].dir
                 /\ run'[m].files = SelectSeq(SubSeq(package, 1, run'[m].entry - 1),
                                              LAMBDA e : ~e.dir)
                 /\ run'[m].written = <<>>
          /\ run[m].pc = "entryAsync" /\ run'[m].pc = "entryAsync" /\ run'[m] # run[m] =>
                 run'[m].entry > run[m].entry
          /\ run'[m].pc \in WriteSteps =>
                 /\ run'[m].files = SelectSeq(package, LAMBDA e : ~e.dir)
                 /\ run'[m].i \in 1..Len(run'[m].files)
                 /\ Recognized(run'[m].files[run'[m].i].path)
                 /\ Contents(run'[m].written) = Contents(MappedBefore(run'[m], run'[m].i))
          /\ run'[m].pc = "mkdir" => DirOf(run'[m].targetPath) \notin dirs'
          /\ run'[m].pc = "writeBinary" => DirOf(run'[m].targetPath) \in dirs'
          /\ run[m].pc = "writeBinary" /\ run'[m].pc \notin {"thrown", "idle"} =>
                 /\ run[m].targetPath \in DOMAIN files'
                 /\ files'[run[m].targetPath] = run[m].files[run[m].i].content
                 /\ Len(run'[m].written) = Len(run[m].written) + 1
                 /\ run'[m].pc \in WriteSteps => run'[m].i > run[m].i
          /\ files' # files => \E n \in Modals : run[n].pc = "writeBinary"
          /\ run'[m].pc \in EditSteps \cup {"save", "returned"} =>
                 Contents(run'[m].written) = Contents(MappedEntries)
          /\ run'[m].pc = "returned" /\ run[m].pc # "returned" =>
                 /\ persisted' = settings /\ settings' = settings
                 /\ files' = files /\ dirs' = dirs /\ appearanceFile' = appearanceFile]_vars

\* the second file is about to be written into a directory that mkdir made
C16_Witness ==
    \E m \in Modals :
        /\ run[m].pc = "writeBinary" /\ Len(run[m].written) = 1
        /\ DirOf(run[m].targetPath) \in dirs
        /\ DirOf(run[m].targetPath) \notin run[m].prev.dirs \cup NewVault.dirs
        /\ SovereignCss \notin DOMAIN files
        /\ DirOf(run[m].written[1].path) # DirOf(run[m].targetPath)

----------------------------------------------------------------------------
(* Classification of archive paths                                         *)

\* archives of one entry whose path holds a marker away from its start, both
\* markers, a marker twice, or none; the content of an entry is its number
PathPool == <<
    [path |-> <<"d", "o", "c", "s", "/", "m", "y", "s", "n", "i", "p", "p", "e", "t", "s", "/", "a", ".", "c", "s", "s">>,
     dir |-> FALSE, content |-> 1],
    [path |-> <<"s", "n", "i", "p", "p", "e", "t", "s", "/", "p", "l", "u", "g", "i", "n", "s", "/", "m", "o", "n", "o", "l", "i", "t", "h", "o", "s", "/", "b", ".", "c", "s", "s">>,
     dir |-> FALSE, content |-> 2],
    [path |-> <<"p", "l", "u", "g", "i", "n", "s", "/", "m", "o", "n", "o", "l", "i", "t", "h", "o", "s", "/", "s", "n", "i", "p", "p", "e", "t", "s", "/", "c", ".", "c", "s", "s">>,
     dir |-> FALSE, content |-> 3],
    [path |-> <<"x", "/", "p", "l", "u", "g", "i", "n", "s", "/", "m", "o", "n", "o", "l", "i", "t", "h", "o", "s", "/", "p", "l", "u", "g", "i", "n", "s", "/", "m", "o", "n", "o", "l", "i", "t", "h", "o", "s", "/", "d", ".", "j", "s">>,
     dir |-> FALSE, content |-> 4],
    [path |-> <<"s", "n", "i", "p", "p", "e", "t", "s", "/", "a", "/", "s", "n", "i", "p", "p", "e", "t", "s", "/", "e", ".", "c", "s", "s">>,
     dir |-> FALSE, content |-> 5],
    [path |-> <<"p", "l", "u", "g", "i", "n", "s", "/", "m", "o", "n", "o", "l", "i", "t", "h", "o", "s", ".", "j", "s">>,
     dir |-> FALSE, content |-> 6],
    [path |-> <<"s", "n", "i", "p", "p", "e", "t", "s">>,
     dir |-> FALSE, content |-> 7],
    [path |-> <<"t", "h", "e", "m", "e", "/", "s", "n", "i", "p", "p", "e", "t", "s", "/", "m", "o", "n", "o", "l", "i", "t", "h", "o", "s", ".", "c", "s", "s">>,
     dir |-> FALSE, content |-> 8] >>

PathPackages == {<<PathPool[i]>> : i \in 1..Len(PathPool)}

InitPaths == InitIn({NewVault}, {Absent}, PathPackages) /\ Unopened

SpecPaths == InitPaths /\ [][Next]_vars

\* where each entry of PathPool is to be written; the empty path for an entry
\* that is to be skipped
ExpectedTargets == <<
    <<".", "o", "b", "s", "i", "d", "i", "a", "n", "/", "s", "n", "i", "p", "p", "e", "t", "s", "/", "a", ".", "c", "s", "s">>,
    <<".", "o", "b", "s", "i", "d", "i", "a", "n", "/", "p", "l", "u", "g", "i", "n", "s", "/", "m", "o", "n", "o", "l", "i", "t", "h", "o", "s", "/", "b", ".", "c", "s", "s">>,
    <<".", "o", "b", "s", "i", "d", "i", "a", "n", "/", "p", "l", "u", "g", "i", "n", "s", "/", "m", "o", "n", "o", "l", "i", "t", "h", "o", "s", "/", "s", "n", "i", "p", "p", "e", "t", "s", "/", "c", ".", "c", "s", "s">>,
    <<".", "o", "b", "s", "i", "d", "i", "a", "n", "/", "p", "l", "u", "g", "i", "n", "s", "/", "m", "o", "n", "o", "l", "i", "t", "h", "o", "s", "/", "p", "l", "u", "g", "i", "n", "s", "/", "m", "o", "n", "o", "l", "i", "t", "h", "o", "s", "/", "d", ".", "j", "s">>,
    <<".", "o", "b", "s", "i", "d", "i", "a", "n", "/", "s", "n", "i", "p", "p", "e", "t", "s", "/", "a", "/", "s", "n", "i", "p", "p", "e", "t", "s", "/", "e", ".", "c", "s", "s">>,
    <<>>,
    <<>>,
    <<".", "o", "b", "s", "i", "d", "i", "a", "n", "/", "s", "n", "i", "p", "p", "e", "t", "s", "/", "m", "o", "n", "o", "l", "i", "t", "h", "o", "s", ".", "c", "s", "s">> >>

\* C17: the target of an entry is '<configDir>/' and the path from the first
\* 'plugins/monolithos/' on when the path holds it anywhere, else from the
\* first 'snippets/' on when it holds that anywhere, else nothing is written:
\* docs/mysnippets/a.css goes under <configDir>/snippets/, and an entry that
\* holds both markers goes under <configDir>/plugins/monolithos/
C17_SubstringClassification ==
    /\ \A i \in 1..Len(PathPool) : TargetPath(PathPool[i].path) = ExpectedTargets[i]
    /\ \A m \in Modals :
           /\ \A j \in 1..Len(run[m].written) :
                  /\ run[m].written[j].path = ExpectedTargets[run[m].written[j].content]
                  /\ run[m].written[j].path \in DOMAIN files
           /\ run[m].pc \in WriteSteps => run[m].targetPath = ExpectedTargets[package[1].content]
           /\ run[m].pc = "returned" =>
                  Len(run[m].written) = IF ExpectedTargets[package[1].content] = <<>> THEN 0 ELSE 1
    /\ \A f \in DOMAIN files : \E i \in 1..Len(PathPool) : f = ExpectedTargets[i] /\ files[f] = i

\* docs/mysnippets/a.css has been installed as a snippet
C17_Witness ==
    \E m \in Modals :
        /\ run[m].pc = "returned"
        /\ package = <<PathPool[1]>>
        /\ DOMAIN files = {ExpectedTargets[1]}
        /\ StartsWith(ExpectedTargets[1], SnippetsPath \o Slash)

----------------------------------------------------------------------------
(* End of an attempt                                                       *)

\* every awaited call of the flow and of the run settles, by returning or by
\* throwing
HostCallsSettle ==
    /\ WF_vars(VerifyReturn(FirstModal, FewOutcomes))
    /\ WF_vars(SaveKey(FirstModal))
    /\ WF_vars(RunStep(FirstModal))

SpecLive == InitUI /\ [][Next]_vars /\ HostCallsSettle

\* the button can be used again, or the install is done and the modal is
\* closing or closed
AttemptOver(m) ==
    \/ ~modal[m].isInstalling /\ ~modal[m].disabled
    \/ modal[m].label = "Done!"

\* C18: every attempt that set the in-progress guard ends, when the awaited
\* calls settle, with the button enabled and the guard cleared or with 'Done!'
\* and the modal closing; no outcome of verifyLicense, saveSettings or
\* installMonolithos leaves the guard set and the button disabled forever
C18_AttemptEnds == \A m \in Modals : modal[m].isInstalling ~> AttemptOver(m)

----------------------------------------------------------------------------
(* The installed flag, in memory and persisted                             *)

\* C19: whenever no run is in progress installed and installedVersion are the
\* same in memory and persisted; a run that threw left the in-memory flag at
\* its prior value; a run that returned true left installed = true and
\* installedVersion = '1.0.0' in memory and persisted
C19_FlagInSync ==
    /\ (\A m \in Modals : ~Active(m)) =>
           /\ settings.installed = persisted.installed
           /\ settings.installedVersion = persisted.installedVersion
    /\ \A m \in Modals :
           /\ run[m].pc = "thrown" =>
                  /\ settings.installed = run[m].before.settings.installed
                  /\ settings.installedVersion = run[m].before.settings.installedVersion
           /\ run[m].pc = "returned" =>
                  /\ settings.installed /\ settings.installedVersion = "1.0.0"
                  /\ persisted.installed /\ persisted.installedVersion = "1.0.0"

====
